---- MODULE Spec2Model ----
(***************************************************************************)
(* Model of the graph canonicalizer of assert-graph-iso (src/src/lib.rs,   *)
(* src/src/gdl.rs, src/src/graph.rs).                                      *)
(*                                                                         *)
(* A Rust String is modelled as the sequence of its bytes (ASCII codes),   *)
(* so format!, join and the byte-wise lexicographic order of Vec::sort are *)
(* computed as the code computes them.  A graph is what the Graph trait    *)
(* exposes: the node enumeration, each node's label and property           *)
(* sequences, and the relationship sequence that outgoing_relationships    *)
(* filters by source.                                                      *)
(***************************************************************************)
EXTENDS Integers, Sequences, FiniteSets, TLC

VARIABLES left, right, pc, signatures, out_buckets, in_buckets, matrix,
          result_left, result_right, equal, properties, block

vars == <<left, right, pc, signatures, out_buckets, in_buckets, matrix,
          result_left, result_right, equal, properties, block>>

(***************************************************************************)
(* Bounds of the model.                                                    *)
(***************************************************************************)
\* nodes + relationships of an input graph
MaxSize == 4
\* length of a property sequence handed to canonical_properties on its own
MaxProps == 3

(***************************************************************************)
(* String literals of the format! templates, as ASCII byte sequences.      *)
(***************************************************************************)
\* "()-[:"
OutOpen == <<40, 41, 45, 91, 58>>
\* "]->"
OutClose == <<93, 45, 62>>
\* "()<-[:"
InOpen == <<40, 41, 60, 45, 91, 58>>
\* "]-"
InClose == <<93, 45>>
\* " => out: "
ArrowOut == <<32, 61, 62, 32, 111, 117, 116, 58, 32>>
\* " in: "
InSep == <<32, 105, 110, 58, 32>>
\* ", "
CommaSpace == <<44, 32>>
\* ": "
ColonSpace == <<58, 32>>
\* "{ "
BraceOpen == <<123, 32>>
\* " }"
BraceClose == <<32, 125>>
\* "\n"
Newline == <<10>>
\* "("
ParenOpen == <<40>>
\* ")"
ParenClose == <<41>>
\* " "
Space == <<32>>
\* ":"
Colon == <<58>>

(***************************************************************************)
(* Rust standard library: String ordering, Vec::sort, Vec::dedup, join.    *)
(***************************************************************************)
\* <str as Ord>::lt : byte-wise lexicographic order, a proper prefix first
str_lt(s, t) ==
    LET common == IF Len(s) < Len(t) THEN Len(s) ELSE Len(t)
        diff == {i \in 1..common : s[i] # t[i]}
    IN  IF diff = {} THEN Len(s) < Len(t)
        ELSE LET first == CHOOSE i \in diff : \A j \in diff : i <= j
             IN  s[first] < t[first]

RECURSIVE insert_sorted(_, _)
insert_sorted(x, v) ==
    IF v = <<>> THEN <<x>>
    ELSE IF str_lt(x, Head(v)) THEN <<x>> \o v
    ELSE <<Head(v)>> \o insert_sorted(x, Tail(v))

RECURSIVE sort(_)
\* Vec<String>::sort (equal strings are indistinguishable, so stability is moot)
sort(v) == IF v = <<>> THEN <<>> ELSE insert_sorted(Head(v), sort(Tail(v)))

RECURSIVE dedup(_)
\* Vec::dedup: removes CONSECUTIVE repeated elements only
dedup(v) ==
    IF Len(v) <= 1 THEN v
    ELSE IF v[1] = v[2] THEN dedup(Tail(v))
    ELSE <<v[1]>> \o dedup(Tail(v))

RECURSIVE join(_, _)
\* [String]::join(sep)
join(v, sep) ==
    IF v = <<>> THEN <<>>
    ELSE IF Len(v) = 1 THEN v[1]
    ELSE v[1] \o sep \o join(Tail(v), sep)

RECURSIVE concat(_)
\* Iterator<Item = String>::collect::<String>()
concat(v) == IF v = <<>> THEN <<>> ELSE Head(v) \o concat(Tail(v))

Range(s) == {s[i] : i \in DOMAIN s}

\* the iteration orders a HashMap with key set S can have
HashOrders(S) ==
    {o \in [1..Cardinality(S) -> S] : \A i, j \in 1..Cardinality(S) : o[i] = o[j] => i = j}

(***************************************************************************)
(* The Graph capability interface as implemented for gdl::Graph.           *)
(* A graph is [nodes, labels, props, rels]: nodes is the enumeration of    *)
(* node ids, labels[id] and props[id] the label and (key, value)           *)
(* sequences of a node, rels the relationships in iteration order, each    *)
(* [source, target, rel_type, properties] (rel_type "" when absent).       *)
(***************************************************************************)
nodes(graph) == graph.nodes

\* self.get_node(node_id): the Option, as [some, labels, props]; the node store
\* of the graph is the domain of its label and property maps
get_node(graph, node_id) ==
    IF node_id \in DOMAIN graph.labels /\ node_id \in DOMAIN graph.props
    THEN [some |-> TRUE, labels |-> graph.labels[node_id], props |-> graph.props[node_id]]
    ELSE [some |-> FALSE, labels |-> <<>>, props |-> <<>>]

\* get_node(node_id).unwrap_or_else(|| panic!("Node id {} not found")), then
\* node.labels(): [panicked, value]
node_labels(graph, node_id) ==
    LET node == get_node(graph, node_id)
    IN  [panicked |-> ~node.some, value |-> node.labels]

\* get_node(node_id).unwrap_or_else(|| panic!("Node id {} not found")), then
\* node.properties(): [panicked, value]
node_properties(graph, node_id) ==
    LET node == get_node(graph, node_id)
    IN  [panicked |-> ~node.some, value |-> node.props]

\* relationships().filter_map(rel.source() == node_id)
outgoing_relationships(graph, node_id) ==
    SelectSeq(graph.rels, LAMBDA rel : rel.source = node_id)

(***************************************************************************)
(* canonical_properties (lib.rs 220-236)                                   *)
(***************************************************************************)
\* format!("{}: {}", key, value)
render_property(kv) == kv[1] \o ColonSpace \o kv[2]

\* the bug-free order of the two normalisation calls: sort, then dedup
normalize_sort_first(entries) == dedup(sort(entries))

\* properties.dedup(); properties.sort();   (in this order)
normalize_properties(entries) == sort(dedup(entries))

canonical_properties(props) ==
    LET rendered == [i \in 1..Len(props) |-> render_property(props[i])]
        sorted_properties == join(normalize_properties(rendered), CommaSpace)
    IN  IF sorted_properties = <<>> THEN <<>>
        ELSE BraceOpen \o sorted_properties \o BraceClose

(***************************************************************************)
(* canonical_nodes (lib.rs 196-218)                                        *)
(***************************************************************************)
\* a signature that leaves the labels out
sorted_labels_dropped(labels) == <<>>

\* node_labels.sort(); node_labels.dedup(); map(format!(":{}")).collect()
sorted_labels(labels) ==
    LET deduped == dedup(sort(labels))
    IN  concat([i \in 1..Len(deduped) |-> Colon \o deduped[i]])

\* format!("({} {})", sorted_labels, sorted_properties)
node_signature(labels, props) ==
    ParenOpen \o sorted_labels(labels) \o Space \o canonical_properties(props)
        \o ParenClose

\* the HashMap<&NodeId, String> collected from graph.nodes()
canonical_nodes(graph) ==
    [node \in Range(nodes(graph)) |->
        node_signature(node_labels(graph, node).value, node_properties(graph, node).value)]

\* canonical_nodes unwinds when node_labels or node_properties panics on a node
canonical_nodes_panics(graph) ==
    \E node \in Range(nodes(graph)) :
        node_labels(graph, node).panicked \/ node_properties(graph, node).panicked

(***************************************************************************)
(* canonicalize (lib.rs 119-194)                                           *)
(***************************************************************************)
RECURSIVE walk_from(_, _)
walk_from(graph, todo) ==
    IF todo = <<>> THEN <<>>
    ELSE outgoing_relationships(graph, Head(todo)) \o walk_from(graph, Tail(todo))

\* the relationships in the order the nested for_each visits them
walk(graph) == walk_from(graph, nodes(graph))

\* canonical_nodes.get(node): the Option, as [some, v]
get(table, node) ==
    IF node \in DOMAIN table THEN [some |-> TRUE, v |-> table[node]]
    ELSE [some |-> FALSE, v |-> <<>>]

\* a lookup that also unwraps the adjacency bucket of every node
panics_on_missing_bucket(graph, table) ==
    LET w == walk(graph)
    IN  \/ \E i \in DOMAIN w : ~get(table, w[i].source).some \/ ~get(table, w[i].target).some
        \/ \E node \in DOMAIN table : \A i \in DOMAIN w : w[i].source # node

\* Option::unwrap of the two signature lookups of a visited relationship
panics(graph, table) ==
    LET w == walk(graph)
    IN  \E i \in DOMAIN w : ~get(table, w[i].source).some \/ ~get(table, w[i].target).some

\* the target rendered by its identifier (Debug of a small integer id)
canonical_target_by_id(table, target_node) == <<48 + (target_node % 10)>>

\* canonical_nodes.get(target_node).unwrap()
canonical_target(table, target_node) == get(table, target_node).v

\* canonical_nodes.get(source_node).unwrap()
canonical_source(table, source_node) == get(table, source_node).v

\* format!("()-[:{} {}]->{}", rel_type, sorted_properties, canonical_target)
canonical_out_relationship(rel_type, sorted_properties, target_signature) ==
    OutOpen \o rel_type \o Space \o sorted_properties \o OutClose \o target_signature

\* format!("()<-[:{} {}]-{}", rel_type, sorted_properties, canonical_source)
canonical_in_relationship(rel_type, sorted_properties, source_signature) ==
    InOpen \o rel_type \o Space \o sorted_properties \o InClose \o source_signature

out_entry(table, rel) ==
    canonical_out_relationship(rel.rel_type, canonical_properties(rel.properties),
                               canonical_target(table, rel.target))

in_entry(table, rel) ==
    canonical_in_relationship(rel.rel_type, canonical_properties(rel.properties),
                              canonical_source(table, rel.source))

\* out_adjacencies.entry(source_node).or_insert(Vec::new()).push(..)
out_adjacencies(graph, table) ==
    LET w == walk(graph)
    IN  [node \in {w[i].source : i \in DOMAIN w} |->
            LET mine == SelectSeq(w, LAMBDA rel : rel.source = node)
            IN  [i \in 1..Len(mine) |-> out_entry(table, mine[i])]]

\* an in bucket that is filled only when target and source differ
in_adjacencies_no_loops(graph, table) ==
    LET w == SelectSeq(walk(graph), LAMBDA rel : rel.source # rel.target)
    IN  [node \in {w[i].target : i \in DOMAIN w} |->
            LET mine == SelectSeq(w, LAMBDA rel : rel.target = node)
            IN  [i \in 1..Len(mine) |-> in_entry(table, mine[i])]]

\* in_adjacencies.entry(target_node).or_insert(Vec::new()).push(..)
in_adjacencies(graph, table) ==
    LET w == walk(graph)
    IN  [node \in {w[i].target : i \in DOMAIN w} |->
            LET mine == SelectSeq(w, LAMBDA rel : rel.target = node)
            IN  [i \in 1..Len(mine) |-> in_entry(table, mine[i])]]

\* buckets joined without sorting them
canonical_adjacencies_unsorted(adjacencies) ==
    [node \in DOMAIN adjacencies |-> join(adjacencies[node], CommaSpace)]

\* buckets deduplicated after sorting
canonical_adjacencies_dedup(adjacencies) ==
    [node \in DOMAIN adjacencies |-> join(dedup(sort(adjacencies[node])), CommaSpace)]

\* relationships.sort(); (node, relationships.join(", ")), collected into a
\* HashMap again: the order in which the bucket map is iterated leaves no trace
canonical_adjacencies(adjacencies) ==
    [node \in DOMAIN adjacencies |-> join(sort(adjacencies[node]), CommaSpace)]

\* canonical_*_adjacencies.remove(node).unwrap_or_default()
remove_or_default(joined, node) ==
    IF node \in DOMAIN joined THEN joined[node] ELSE <<>>

\* format!("{} => out: {} in: {}", canonical_node, out, in)
node_record(signature, out_joined, in_joined) ==
    signature \o ArrowOut \o out_joined \o InSep \o in_joined

\* canonical_nodes.into_iter().map(..).collect::<Vec<_>>(), in hash order
unsorted_matrix(table, out_joined, in_joined, order) ==
    [i \in 1..Len(order) |->
        node_record(table[order[i]], remove_or_default(out_joined, order[i]),
                    remove_or_default(in_joined, order[i]))]

\* the records left in hash-iteration order
sort_matrix_skipped(records) == records

\* matrix.sort()
sort_matrix(records) == sort(records)

\* the sorted records, for one iteration order of the signature table
sorted_matrix(graph, order) ==
    LET table == canonical_nodes(graph)
    IN  sort_matrix(unsorted_matrix(table,
                                    canonical_adjacencies(out_adjacencies(graph, table)),
                                    canonical_adjacencies(in_adjacencies(graph, table)),
                                    order))

\* canonicalize: [panicked, value]; a panic unwinds and returns no string
canonicalize(graph, order) ==
    IF canonical_nodes_panics(graph) \/ panics(graph, canonical_nodes(graph))
    THEN [panicked |-> TRUE, value |-> <<>>]
    ELSE [panicked |-> FALSE, value |-> join(sorted_matrix(graph, order), Newline)]

(***************************************************************************)
(* graphs_equal (spec section 4.3; no such function under src/)            *)
(***************************************************************************)
graphs_equal(canonical_left, canonical_right) == canonical_left = canonical_right

(***************************************************************************)
(* Input families.                                                         *)
(***************************************************************************)
\* "A", "B", "a", "b", "c", "1", "2", "R"
LabelA == <<65>>
LabelB == <<66>>
KeyA == <<97>>
KeyB == <<98>>
KeyC == <<99>>
Val1 == <<49>>
Val2 == <<50>>
TypeR == <<82>>

\* the identifier of a node that nodes() does not enumerate
Missing == 0

BoundedSeqs(S, n) == UNION {[1..k -> S] : k \in 0..n}

NoResult == [panicked |-> FALSE, value |-> <<>>]

EmptyTable == [node \in {} |-> <<>>]

\* a node's own content: its label sequence and its property sequence
NodeKinds ==
    { [labels |-> <<>>, props |-> <<>>],
      [labels |-> <<LabelB, LabelA, LabelB>>, props |-> <<<<KeyB, Val2>>, <<KeyA, Val1>>>>] }

\* a relationship's own content: its type ("" when absent) and its properties
RelKinds ==
    { [rel_type |-> <<>>, properties |-> <<>>],
      [rel_type |-> TypeR, properties |-> <<<<KeyB, Val2>>, <<KeyA, Val1>>>>] }

Rels(sources, targets, kinds) ==
    {[source |-> s, target |-> t, rel_type |-> k.rel_type, properties |-> k.properties] :
        s \in sources, t \in targets, k \in kinds}

\* graphs with n nodes 1..n and at most r relationships; extra: further target ids
GraphsWith(n, r, nodeKinds, relKinds, extra) ==
    {[nodes |-> [i \in 1..n |-> i],
      labels |-> [i \in 1..n |-> kind[i].labels],
      props |-> [i \in 1..n |-> kind[i].props],
      rels |-> rels] :
        kind \in [1..n -> nodeKinds],
        rels \in BoundedSeqs(Rels(1..n, (1..n) \cup extra, relKinds), r)}

\* every graph of at most size nodes and relationships together
GraphsUpTo(size, nodeKinds, relKinds, extra) ==
    UNION {GraphsWith(n, size - n, nodeKinds, relKinds, extra) : n \in 0..size}

\* every relationship endpoint is enumerated by nodes()
WellFormed(graph) ==
    \A i \in DOMAIN graph.rels :
        graph.rels[i].source \in Range(graph.nodes) /\ graph.rels[i].target \in Range(graph.nodes)

(***************************************************************************)
(* The graph and the expected string of tests::canonical_labels            *)
(* (lib.rs 243-264); nodes a, b, c are 1, 2, 3.                            *)
(***************************************************************************)
\* "REL", "bar", "baz", "boz", "13", "37", "42", "84", "19", "12", "23", "C"
TypeREL == <<82, 69, 76>>
KeyBar == <<98, 97, 114>>
KeyBaz == <<98, 97, 122>>
KeyBoz == <<98, 111, 122>>
Val13 == <<49, 51>>
Val37 == <<51, 55>>
Val42 == <<52, 50>>
Val84 == <<56, 52>>
Val19 == <<49, 57>>
Val12 == <<49, 50>>
Val23 == <<50, 51>>
LabelC == <<67>>

ExampleGraph ==
    [nodes |-> <<1, 2, 3>>,
     labels |-> <<<<LabelA>>, <<LabelB>>, <<LabelC>>>>,
     props |-> << <<<<KeyC, Val42>>, <<KeyB, Val37>>, <<KeyA, Val13>>>>,
                  <<<<KeyBar, Val84>>>>,
                  <<<<KeyBaz, Val19>>, <<KeyBoz, Val84>>>> >>,
     rels |-> << [source |-> 1, target |-> 2, rel_type |-> TypeREL,
                  properties |-> <<<<KeyC, Val42>>, <<KeyB, Val37>>, <<KeyA, Val13>>>>],
                 [source |-> 2, target |-> 1, rel_type |-> TypeREL,
                  properties |-> <<<<KeyC, Val12>>>>],
                 [source |-> 2, target |-> 3, rel_type |-> TypeREL,
                  properties |-> <<<<KeyA, Val23>>>>] >>]

\* (:A { a: 13, b: 37, c: 42 }) => out: ()-[:REL { a: 13, b: 37, c: 42 }]->(:B { ba
\*    r: 84 }) in: ()<-[:REL { c: 12 }]-(:B { bar: 84 })
ExpectedRecordA ==
    <<40, 58, 65, 32, 123, 32, 97, 58, 32, 49, 51, 44, 32, 98, 58, 32, 51, 55, 44, 32,
      99, 58, 32, 52, 50, 32, 125, 41, 32, 61, 62, 32, 111, 117, 116, 58, 32, 40, 41,
      45, 91, 58, 82, 69, 76, 32, 123, 32, 97, 58, 32, 49, 51, 44, 32, 98, 58, 32, 51,
      55, 44, 32, 99, 58, 32, 52, 50, 32, 125, 93, 45, 62, 40, 58, 66, 32, 123, 32, 98,
      97, 114, 58, 32, 56, 52, 32, 125, 41, 32, 105, 110, 58, 32, 40, 41, 60, 45, 91,
      58, 82, 69, 76, 32, 123, 32, 99, 58, 32, 49, 50, 32, 125, 93, 45, 40, 58, 66, 32,
      123, 32, 98, 97, 114, 58, 32, 56, 52, 32, 125, 41>>

\* (:B { bar: 84 }) => out: ()-[:REL { a: 23 }]->(:C { baz: 19, boz: 84 }), ()-[:RE
\*    L { c: 12 }]->(:A { a: 13, b: 37, c: 42 }) in: ()<-[:REL { a: 13, b: 37, c: 42 }
\*    ]-(:A { a: 13, b: 37, c: 42 })
ExpectedRecordB ==
    <<40, 58, 66, 32, 123, 32, 98, 97, 114, 58, 32, 56, 52, 32, 125, 41, 32, 61, 62,
      32, 111, 117, 116, 58, 32, 40, 41, 45, 91, 58, 82, 69, 76, 32, 123, 32, 97, 58,
      32, 50, 51, 32, 125, 93, 45, 62, 40, 58, 67, 32, 123, 32, 98, 97, 122, 58, 32,
      49, 57, 44, 32, 98, 111, 122, 58, 32, 56, 52, 32, 125, 41, 44, 32, 40, 41, 45,
      91, 58, 82, 69, 76, 32, 123, 32, 99, 58, 32, 49, 50, 32, 125, 93, 45, 62, 40, 58,
      65, 32, 123, 32, 97, 58, 32, 49, 51, 44, 32, 98, 58, 32, 51, 55, 44, 32, 99, 58,
      32, 52, 50, 32, 125, 41, 32, 105, 110, 58, 32, 40, 41, 60, 45, 91, 58, 82, 69,
      76, 32, 123, 32, 97, 58, 32, 49, 51, 44, 32, 98, 58, 32, 51, 55, 44, 32, 99, 58,
      32, 52, 50, 32, 125, 93, 45, 40, 58, 65, 32, 123, 32, 97, 58, 32, 49, 51, 44, 32,
      98, 58, 32, 51, 55, 44, 32, 99, 58, 32, 52, 50, 32, 125, 41>>

\* (:C { baz: 19, boz: 84 }) => out:  in: ()<-[:REL { a: 23 }]-(:B { bar: 84 })
ExpectedRecordC ==
    <<40, 58, 67, 32, 123, 32, 98, 97, 122, 58, 32, 49, 57, 44, 32, 98, 111, 122, 58,
      32, 56, 52, 32, 125, 41, 32, 61, 62, 32, 111, 117, 116, 58, 32, 32, 105, 110, 58,
      32, 40, 41, 60, 45, 91, 58, 82, 69, 76, 32, 123, 32, 97, 58, 32, 50, 51, 32, 125,
      93, 45, 40, 58, 66, 32, 123, 32, 98, 97, 114, 58, 32, 56, 52, 32, 125, 41>>

ExpectedExample ==
    ExpectedRecordA \o Newline \o ExpectedRecordB \o Newline \o ExpectedRecordC

(***************************************************************************)
(* The state machine: canonicalize(left), canonicalize(right), compare.    *)
(***************************************************************************)
Idle ==
    /\ signatures = EmptyTable
    /\ out_buckets = EmptyTable
    /\ in_buckets = EmptyTable
    /\ matrix = <<>>
    /\ result_left = NoResult
    /\ result_right = NoResult
    /\ equal = FALSE

Init ==
    /\ left \in GraphsUpTo(MaxSize, NodeKinds, RelKinds, {}) \cup {ExampleGraph}
    /\ right = left
    /\ pc = "left"
    /\ properties = <<>>
    /\ block = <<>>
    /\ Idle

\* canonicalize(&left): the signature table is iterated in some hash order
CanonicalizeLeft ==
    /\ pc = "left"
    /\ \E order \in HashOrders(Range(nodes(left))) :
         LET table == canonical_nodes(left)
             res == canonicalize(left, order)
         IN  /\ result_left' = res
             /\ signatures' = IF canonical_nodes_panics(left) THEN EmptyTable ELSE table
             /\ out_buckets' = IF res.panicked THEN EmptyTable ELSE out_adjacencies(left, table)
             /\ in_buckets' = IF res.panicked THEN EmptyTable ELSE in_adjacencies(left, table)
             /\ matrix' = IF res.panicked THEN <<>> ELSE sorted_matrix(left, order)
             /\ pc' = IF res.panicked THEN "panic" ELSE "right"
    /\ UNCHANGED <<left, right, result_right, equal, properties, block>>

\* canonicalize(&right)
CanonicalizeRight ==
    /\ pc = "right"
    /\ \E order \in HashOrders(Range(nodes(right))) :
         LET res == canonicalize(right, order)
         IN  /\ result_right' = res
             /\ pc' = IF res.panicked THEN "panic" ELSE "compare"
    /\ UNCHANGED <<left, right, signatures, out_buckets, in_buckets, matrix, result_left,
                   equal, properties, block>>

\* graphs_equal: textual equality of the two canonical forms
GraphsEqual ==
    /\ pc = "compare"
    /\ equal' = graphs_equal(result_left.value, result_right.value)
    /\ pc' = "done"
    /\ UNCHANGED <<left, right, signatures, out_buckets, in_buckets, matrix, result_left,
                   result_right, properties, block>>

Next == CanonicalizeLeft \/ CanonicalizeRight \/ GraphsEqual

Spec == Init /\ [][Next]_vars

(***************************************************************************)
(* canonical_properties applied on its own.                                *)
(***************************************************************************)
\* the (key, value) pairs a property sequence is drawn from
PropPairs == {<<KeyA, Val1>>, <<KeyA, Val2>>, <<KeyB, Val1>>, <<KeyC, Val2>>}

InitProps ==
    /\ properties \in BoundedSeqs(PropPairs, MaxProps)
    /\ block = <<>>
    /\ left = [nodes |-> <<>>, labels |-> <<>>, props |-> <<>>, rels |-> <<>>]
    /\ right = left
    /\ pc = "props"
    /\ Idle

CanonicalProperties ==
    /\ pc = "props"
    /\ block' = canonical_properties(properties)
    /\ pc' = "done"
    /\ UNCHANGED <<left, right, signatures, out_buckets, in_buckets, matrix, result_left,
                   result_right, equal, properties>>

NextProps == CanonicalProperties

SpecProps == InitProps /\ [][NextProps]_vars

(***************************************************************************)
(* Graphs of a malformed backing store: a relationship may point at a node *)
(* that nodes() does not enumerate.                                        *)
(***************************************************************************)
InitMalformed ==
    /\ left \in GraphsUpTo(MaxSize - 1, NodeKinds, RelKinds, {Missing})
    /\ right = left
    /\ pc = "left"
    /\ properties = <<>>
    /\ block = <<>>
    /\ Idle

SpecMalformed == InitMalformed /\ [][Next]_vars

(***************************************************************************)
(* Renaming: right is left with its node identifiers relabelled.           *)
(***************************************************************************)
\* the bijective relabelings of the identifiers 1..n: the permutations of 1..n
\* and the shift onto the fresh identifiers n+1..2n
Relabelings(n) == HashOrders(1..n) \cup {[i \in 1..n |-> i + n]}

Relabel(graph, f) ==
    LET ids == {f[node] : node \in Range(graph.nodes)}
        inv(id) == CHOOSE node \in Range(graph.nodes) : f[node] = id
    IN  [nodes |-> [i \in DOMAIN graph.nodes |-> f[graph.nodes[i]]],
         labels |-> [id \in ids |-> graph.labels[inv(id)]],
         props |-> [id \in ids |-> graph.props[inv(id)]],
         rels |-> [i \in DOMAIN graph.rels |->
                     [graph.rels[i] EXCEPT !.source = f[@], !.target = f[@]]]]

InitRename ==
    /\ left \in GraphsUpTo(MaxSize - 1, NodeKinds, RelKinds, {})
    /\ \E f \in Relabelings(Len(left.nodes)) : right = Relabel(left, f)
    /\ pc = "left"
    /\ properties = <<>>
    /\ block = <<>>
    /\ Idle

SpecRename == InitRename /\ [][Next]_vars

(***************************************************************************)
(* Reordering: right is left with its enumerations permuted.               *)
(***************************************************************************)
Reversed(v) == [i \in DOMAIN v |-> v[Len(v) + 1 - i]]

Rotated(v) == IF v = <<>> THEN v ELSE Tail(v) \o <<Head(v)>>

Shuffled(v, mode) ==
    CASE mode = "same" -> v
      [] mode = "reversed" -> Reversed(v)
      [] mode = "rotated" -> Rotated(v)

ShuffleModes == {"same", "reversed", "rotated"}

\* the same graph with nodes() permuted by byNode, the relationships permuted by
\* byRel, and every label and property sequence shuffled
Reorder(graph, byNode, byRel, labelMode, propMode) ==
    [nodes |-> [i \in DOMAIN graph.nodes |-> graph.nodes[byNode[i]]],
     labels |-> [id \in DOMAIN graph.labels |-> Shuffled(graph.labels[id], labelMode)],
     props |-> [id \in DOMAIN graph.props |-> Shuffled(graph.props[id], propMode)],
     rels |-> [i \in DOMAIN graph.rels |->
                 [graph.rels[byRel[i]] EXCEPT
                     !.properties = Shuffled(@, propMode)]]]

\* property sequences here may repeat an entry
OrderNodeKinds ==
    { [labels |-> <<>>, props |-> <<>>],
      [labels |-> <<LabelB, LabelA>>,
       props |-> <<<<KeyA, Val1>>, <<KeyA, Val1>>, <<KeyB, Val2>>>>] }

OrderRelKinds ==
    { [rel_type |-> <<>>, properties |-> <<>>],
      [rel_type |-> TypeR, properties |-> <<<<KeyB, Val2>>, <<KeyA, Val1>>>>] }

InitOrder ==
    /\ left \in GraphsUpTo(MaxSize - 1, OrderNodeKinds, OrderRelKinds, {})
    /\ \E byNode \in HashOrders(DOMAIN left.nodes), byRel \in HashOrders(DOMAIN left.rels),
          labelMode \in ShuffleModes, propMode \in ShuffleModes :
            right = Reorder(left, byNode, byRel, labelMode, propMode)
    /\ pc = "left"
    /\ properties = <<>>
    /\ block = <<>>
    /\ Idle

SpecOrder == InitOrder /\ [][Next]_vars

(***************************************************************************)
(* Multiplicity: left is right with one of its relationships repeated.     *)
(***************************************************************************)
InitMulti ==
    /\ right \in GraphsUpTo(MaxSize - 1, NodeKinds, RelKinds, {})
    /\ \E j \in DOMAIN right.rels :
          left = [right EXCEPT !.rels = Append(@, right.rels[j])]
    /\ pc = "left"
    /\ properties = <<>>
    /\ block = <<>>
    /\ Idle

SpecMulti == InitMulti /\ [][Next]_vars

(***************************************************************************)
(* Sensitivity: right is left with one thing changed.                      *)
(***************************************************************************)
\* "1, b: 2" and "A:B": a property value and a label that contain separators
\* of the format
ValInjected == <<49, 44, 32, 98, 58, 32, 50>>
LabelInjected == <<65, 58, 66>>

\* "-1.5", "[1]", "R-S": tokens with punctuation that is not a separator
ValSigned == <<45, 49, 46, 53>>
ValList == <<91, 49, 93>>
TypeRS == <<82, 45, 83>>

\* the content of the nodes and relationships of the graph that is changed
SensNodeKinds ==
    { [labels |-> <<>>, props |-> <<<<KeyA, Val1>>, <<KeyB, Val2>>>>],
      [labels |-> <<LabelA, LabelB>>, props |-> <<<<KeyA, Val1>>, <<KeyB, Val2>>>>],
      [labels |-> <<>>, props |-> <<<<KeyA, Val1>>>>] }

SensRelKinds == { [rel_type |-> TypeR, properties |-> <<<<KeyA, Val1>>>>] }

\* the label sequences, property sequences and types a change puts in place
SensLabels == {<<>>, <<LabelA>>, <<LabelB>>, <<LabelA, LabelB>>, <<LabelInjected>>}

SensProps ==
    { <<>>,
      <<<<KeyA, Val1>>>>,
      <<<<KeyA, Val2>>>>,
      <<<<KeyB, Val1>>>>,
      <<<<KeyA, Val1>>, <<KeyB, Val2>>>>,
      <<<<KeyA, Val1>>, <<KeyA, Val2>>>>,
      <<<<KeyA, ValSigned>>>>,
      <<<<KeyA, ValList>>>>,
      <<<<KeyA, ValInjected>>>> }

SensTypes == {<<>>, TypeR, TypeRS}

\* the graphs one change away from graph: other labels alone or other
\* properties alone for a node, another type alone, other properties alone or
\* another endpoint for a relationship, a relationship removed, a relationship
\* added
Edits(graph) ==
    LET ids == Range(graph.nodes)
        without(j) == [i \in 1..(Len(graph.rels) - 1) |->
                          IF i < j THEN graph.rels[i] ELSE graph.rels[i + 1]]
    IN  {[graph EXCEPT !.labels[node] = l] : node \in ids, l \in SensLabels}
        \cup {[graph EXCEPT !.props[node] = p] : node \in ids, p \in SensProps}
        \cup {[graph EXCEPT !.rels[j].rel_type = t] : j \in DOMAIN graph.rels, t \in SensTypes}
        \cup {[graph EXCEPT !.rels[j].properties = p] :
                j \in DOMAIN graph.rels, p \in SensProps}
        \cup {[graph EXCEPT !.rels[j].target = node] : j \in DOMAIN graph.rels, node \in ids}
        \cup {[graph EXCEPT !.rels[j].source = node] : j \in DOMAIN graph.rels, node \in ids}
        \cup {[graph EXCEPT !.rels = without(j)] : j \in DOMAIN graph.rels}
        \cup {[graph EXCEPT !.rels = Append(@, rel)] : rel \in Rels(ids, ids, SensRelKinds)}

\* no two nodes of graph share a node signature
CollisionFree(graph) ==
    \A a, b \in Range(graph.nodes) :
        a # b => canonical_nodes(graph)[a] # canonical_nodes(graph)[b]

InitSens ==
    /\ left \in GraphsUpTo(MaxSize - 1, SensNodeKinds, SensRelKinds, {})
    /\ CollisionFree(left)
    /\ right \in Edits(left)
    /\ CollisionFree(right)
    /\ pc = "left"
    /\ properties = <<>>
    /\ block = <<>>
    /\ Idle

SpecSens == InitSens /\ [][Next]_vars

(***************************************************************************)
(* Helpers of the properties.                                              *)
(***************************************************************************)
IsSorted(v) == \A i, j \in DOMAIN v : i < j => ~str_lt(v[j], v[i])

IsStrictlySorted(v) == \A i, j \in DOMAIN v : i < j => str_lt(v[i], v[j])

Count(v, x) == Cardinality({i \in DOMAIN v : v[i] = x})

\* v holds the same elements as w, each as often
SameBag(v, w) == Len(v) = Len(w) /\ \A i \in DOMAIN v : Count(v, v[i]) = Count(w, v[i])

\* the one sorted arrangement of the strings of v
Arranged(v) ==
    CHOOSE w \in {[i \in DOMAIN v |-> v[o[i]]] : o \in HashOrders(DOMAIN v)} : IsSorted(w)

\* the strings of the set S in strictly increasing order
Ascending(S) == CHOOSE w \in HashOrders(S) : IsStrictlySorted(w)

Bucket(buckets, node) == IF node \in DOMAIN buckets THEN buckets[node] ELSE <<>>

Ran == pc \in {"right", "compare", "done"}

SelfLoops(graph) == {i \in DOMAIN graph.rels : graph.rels[i].source = graph.rels[i].target}

\* the relationships of graph leaving (entering) node
Leaving(graph, node) == SelectSeq(graph.rels, LAMBDA rel : rel.source = node)

Entering(graph, node) == SelectSeq(graph.rels, LAMBDA rel : rel.target = node)

(***************************************************************************)
(* C4: self-loops.                                                         *)
(***************************************************************************)
\* C4: once canonicalize(left) has run, every relationship from a node to itself
\* has its outgoing entry in that node's out bucket and its incoming entry in that
\* node's in bucket, each as often as the node has relationships rendering to that
\* entry, and every node's buckets hold exactly one entry per relationship leaving
\* (entering) it, so a self-loop adds nothing to another node's buckets.
SelfLoopCorrect ==
    Ran =>
        /\ \A i \in SelfLoops(left) :
             LET rel == left.rels[i]
                 node == rel.source
                 blk == canonical_properties(rel.properties)
                 oe == OutOpen \o rel.rel_type \o Space \o blk \o OutClose \o signatures[node]
                 ie == InOpen \o rel.rel_type \o Space \o blk \o InClose \o signatures[node]
                 outs == Leaving(left, node)
                 ins == Entering(left, node)
             IN  /\ Count(Bucket(out_buckets, node), oe)
                      = Cardinality({j \in DOMAIN outs : out_entry(signatures, outs[j]) = oe})
                 /\ Count(Bucket(in_buckets, node), ie)
                      = Cardinality({j \in DOMAIN ins : in_entry(signatures, ins[j]) = ie})
                 /\ Count(Bucket(out_buckets, node), oe) >= 1
                 /\ Count(Bucket(in_buckets, node), ie) >= 1
        /\ \A node \in Range(left.nodes) :
             /\ Len(Bucket(out_buckets, node)) = Len(Leaving(left, node))
             /\ Len(Bucket(in_buckets, node)) = Len(Entering(left, node))

\* a graph with a self-loop next to another node that has relationships of its own
SelfLoopSeen ==
    /\ Ran
    /\ \E i \in SelfLoops(left) : \E j \in DOMAIN left.rels :
          /\ left.rels[j].source # left.rels[i].source
          /\ left.rels[j].target = left.rels[i].source

(***************************************************************************)
(* C7: the canonical graph form.                                           *)
(***************************************************************************)
ExpectedNodeRecord(node) ==
    LET outs == Leaving(left, node)
        ins == Entering(left, node)
    IN  signatures[node] \o ArrowOut
          \o join(Arranged([i \in DOMAIN outs |-> out_entry(signatures, outs[i])]), CommaSpace)
          \o InSep
          \o join(Arranged([i \in DOMAIN ins |-> in_entry(signatures, ins[i])]), CommaSpace)

\* C7: the result is the newline-joined, sorted list of one record per enumerated
\* node (equal records kept apart), each record being the node's signature,
\* " => out: ", its outgoing entries sorted and joined with ", ", " in: " and its
\* incoming entries sorted and joined with ", "; and the graph of the test
\* canonical_labels yields the test's expected string.
CanonicalForm ==
    Ran =>
        /\ Len(matrix) = Len(left.nodes)
        /\ IsSorted(matrix)
        /\ SameBag(matrix, [i \in DOMAIN left.nodes |-> ExpectedNodeRecord(left.nodes[i])])
        /\ result_left.value = join(matrix, Newline)
        /\ left = ExampleGraph => result_left.value = ExpectedExample

\* a node whose outgoing entries are visited out of order, in a graph where two
\* nodes have the same signature
CanonicalFormSeen ==
    /\ Ran
    /\ \E node \in DOMAIN out_buckets :
          /\ Len(out_buckets[node]) >= 2
          /\ str_lt(out_buckets[node][2], out_buckets[node][1])
    /\ \E a, b \in DOMAIN signatures : a # b /\ signatures[a] = signatures[b]
    /\ Len(matrix) = Len(left.nodes)

CanonicalFormExampleSeen == Ran /\ left = ExampleGraph /\ result_left.value = ExpectedExample

(***************************************************************************)
(* C8: determinism.                                                        *)
(***************************************************************************)
\* C8: two executions of canonicalize on the same graph, each iterating its hash
\* maps in an order of its own, return the same string, and graphs_equal(G, G)
\* is true.
Deterministic ==
    (pc \in {"compare", "done"} => result_left = result_right)
        /\ (pc = "done" => equal)

\* both executions finished on a graph whose records differ, so that the
\* iteration order is visible before the final sort
DeterministicSeen ==
    /\ pc = "done"
    /\ right = left
    /\ Len(matrix) >= 2
    /\ matrix[1] # matrix[2]

(***************************************************************************)
(* C10: totality on well-formed input.                                     *)
(***************************************************************************)
\* "( ) => out:  in: "
BareRecord == ParenOpen \o Space \o ParenClose \o ArrowOut \o InSep

Bare(graph, node) ==
    /\ graph.labels[node] = <<>>
    /\ graph.props[node] = <<>>
    /\ Leaving(graph, node) = <<>>
    /\ Entering(graph, node) = <<>>

\* C10: on a graph whose relationship endpoints are all enumerated canonicalize
\* never panics and every call of it returns a string (the step of each call ends
\* with the call returned); the empty graph yields the empty string and a node
\* without labels, properties and relationships the record "( ) => out:  in: ".
Total ==
    /\ [](WellFormed(left) =>
            /\ pc # "panic"
            /\ Ran => /\ ~result_left.panicked
                      /\ left.nodes = <<>> => result_left.value = <<>>
                      /\ \A node \in Range(left.nodes) :
                            Bare(left, node) => \E i \in DOMAIN matrix : matrix[i] = BareRecord)
    /\ [][WellFormed(left) =>
            /\ pc = "left" => pc' = "right" /\ ~result_left'.panicked
            /\ pc = "right" => pc' = "compare" /\ ~result_right'.panicked]_vars

\* a finished run on a graph with a bare node and an untyped, property-less
\* relationship between two other nodes
TotalSeen ==
    /\ pc = "done"
    /\ WellFormed(left)
    /\ \E node \in Range(left.nodes) : Bare(left, node)
    /\ \E i \in DOMAIN left.rels : left.rels[i].rel_type = <<>> /\ left.rels[i].properties = <<>>

(***************************************************************************)
(* C6: a relationship whose target is not enumerated.                      *)
(***************************************************************************)
Dangling(graph) ==
    \E i \in DOMAIN graph.rels :
        /\ graph.rels[i].source \in Range(graph.nodes)
        /\ graph.rels[i].target \notin Range(graph.nodes)

\* C6: when a relationship yielded by outgoing_relationships references a node
\* that nodes() does not enumerate, canonicalize does not abort: it hands the
\* caller a result.
MissingNodeSurfaced ==
    (Dangling(left) /\ pc # "left") => (pc # "panic" /\ ~result_left.panicked)

(***************************************************************************)
(* C9: the canonical property block.                                       *)
(***************************************************************************)
ExpectedBlock(props) ==
    IF props = <<>> THEN <<>>
    ELSE BraceOpen
           \o join(Ascending({props[i][1] \o ColonSpace \o props[i][2] : i \in DOMAIN props}),
                   CommaSpace)
           \o BraceClose

\* C9: for every property sequence canonical_properties returns "{ e1, e2, ... }"
\* with the distinct rendered entries, each once, in increasing order, and the
\* empty string for the empty sequence.
PropertyBlockDistinctSorted == pc = "done" => block = ExpectedBlock(properties)

(***************************************************************************)
(* C1: renaming invariance.                                                *)
(***************************************************************************)
\* C1: a graph and the same graph with its node identifiers relabelled by a
\* bijection (in nodes() and in every relationship endpoint) have the same
\* canonical form.
RenamingInvariant ==
    /\ pc \in {"compare", "done"} => result_left.value = result_right.value
    /\ pc = "done" => equal

\* compared: a graph with relationships between two nodes of different content
\* and a relabelling that moves both
RenamingSeen ==
    /\ pc = "done"
    /\ equal
    /\ Len(left.nodes) >= 2
    /\ \A i \in DOMAIN left.nodes : right.nodes[i] # left.nodes[i]
    /\ \E i \in DOMAIN left.rels : left.rels[i].source # left.rels[i].target
    /\ matrix[1] # matrix[2]

(***************************************************************************)
(* C2: order invariance.                                                   *)
(***************************************************************************)
\* C2: permuting the order in which nodes, labels, properties or relationships
\* are yielded does not change the canonical form.
OrderInvariant == pc = "done" => (equal /\ result_left = result_right)

(***************************************************************************)
(* C3: sensitivity.                                                        *)
(***************************************************************************)
\* the characters of the separators ", " and ": " of the format: " ", ",", ":"
Separators == {32, 44, 58}

Free(str) == \A i \in DOMAIN str : str[i] \notin Separators

FreeProps(props) == \A i \in DOMAIN props : Free(props[i][1]) /\ Free(props[i][2])

\* no label, property key, property value or relationship type of graph
\* contains a space, a comma or a colon
SeparatorFree(graph) ==
    /\ \A node \in Range(graph.nodes) :
          /\ FreeProps(graph.props[node])
          /\ \A i \in DOMAIN graph.labels[node] : Free(graph.labels[node][i])
    /\ \A i \in DOMAIN graph.rels :
          Free(graph.rels[i].rel_type) /\ FreeProps(graph.rels[i].properties)

RelContent(rel) == <<rel.rel_type, Range(rel.properties)>>

\* g and h are equal up to a renaming of node identifiers: labels compared as
\* sets, properties as sets of pairs, relationships as a multiset
Isomorphic(g, h) ==
    /\ Len(g.nodes) = Len(h.nodes)
    /\ Len(g.rels) = Len(h.rels)
    /\ \E f \in [Range(g.nodes) -> Range(h.nodes)] :
          /\ \A a, b \in Range(g.nodes) : f[a] = f[b] => a = b
          /\ \A a \in Range(g.nodes) :
                /\ Range(g.labels[a]) = Range(h.labels[f[a]])
                /\ Range(g.props[a]) = Range(h.props[f[a]])
          /\ \A i \in DOMAIN g.rels :
                Cardinality({j \in DOMAIN g.rels :
                                /\ g.rels[j].source = g.rels[i].source
                                /\ g.rels[j].target = g.rels[i].target
                                /\ RelContent(g.rels[j]) = RelContent(g.rels[i])})
                  = Cardinality({j \in DOMAIN h.rels :
                                /\ h.rels[j].source = f[g.rels[i].source]
                                /\ h.rels[j].target = f[g.rels[i].target]
                                /\ RelContent(h.rels[j]) = RelContent(g.rels[i])})

\* C3 as amended: two well-formed graphs without signature collisions, whose
\* labels, property keys, property values and relationship types contain no
\* space, comma or colon, and which differ in a node label, a node or
\* relationship property key/value, a relationship type or the adjacency
\* structure (are not equal up to a renaming of node identifiers), have
\* different canonical forms.
SensitiveOnSeparatorFree ==
    (pc = "done" /\ SeparatorFree(left) /\ SeparatorFree(right) /\ ~Isomorphic(left, right))
        => ~equal

\* (a)-->(b) against (a)-->(a), found unequal
SensitiveSeen ==
    /\ pc = "done"
    /\ ~equal
    /\ SeparatorFree(left) /\ SeparatorFree(right)
    /\ Len(left.nodes) = 2 /\ Len(left.rels) = 1
    /\ left.rels[1].source # left.rels[1].target
    /\ right = [left EXCEPT !.rels[1].target = left.rels[1].source]

\* C3 as stated: two well-formed graphs without signature collisions which are
\* not equal up to a renaming of node identifiers have different canonical forms.
Sensitive == (pc = "done" /\ ~Isomorphic(left, right)) => ~equal

(***************************************************************************)
(* C5: parallel relationships.                                             *)
(***************************************************************************)
Parallel(graph, i) ==
    {j \in DOMAIN graph.rels :
        /\ graph.rels[j].source = graph.rels[i].source
        /\ graph.rels[j].target = graph.rels[i].target
        /\ RelContent(graph.rels[j]) = RelContent(graph.rels[i])}

\* C5: k relationships with the same source, target, type and properties leave k
\* equal entries in the source's out bucket and k in the target's in bucket
\* (each entry as often as relationships render to it), and the graph with one
\* such relationship more has a different canonical form.
MultisetPreserved ==
    /\ Ran =>
         \A i \in DOMAIN left.rels :
            LET rel == left.rels[i]
                oe == out_entry(signatures, rel)
                ie == in_entry(signatures, rel)
                outs == Leaving(left, rel.source)
                ins == Entering(left, rel.target)
            IN  /\ Count(Bucket(out_buckets, rel.source), oe) >= Cardinality(Parallel(left, i))
                /\ Count(Bucket(in_buckets, rel.target), ie) >= Cardinality(Parallel(left, i))
                /\ Count(Bucket(out_buckets, rel.source), oe)
                     = Cardinality({j \in DOMAIN outs : out_entry(signatures, outs[j]) = oe})
                /\ Count(Bucket(in_buckets, rel.target), ie)
                     = Cardinality({j \in DOMAIN ins : in_entry(signatures, ins[j]) = ie})
    /\ pc \in {"compare", "done"} => result_left.value # result_right.value
    /\ pc = "done" => ~equal

\* two parallel relationships against one, between two different nodes
MultisetSeen ==
    /\ pc = "done"
    /\ ~equal
    /\ \E i \in DOMAIN left.rels :
          /\ Cardinality(Parallel(left, i)) = 2
          /\ left.rels[i].source # left.rels[i].target
          /\ Count(out_buckets[left.rels[i].source], out_entry(signatures, left.rels[i])) = 2

====
